---- MODULE Spec2Model ----
(***************************************************************************)
(* Model of porkbrain/hunt: the predator/prey interaction pass             *)
(* (entities::interact), the motion integrator (entities::nudge), the      *)
(* keyboard steering helper and the system schedule built in main().       *)
(*                                                                         *)
(* Positions are points of an integer grid 0..MAP_SIZE x 0..MAP_SIZE; the  *)
(* code's f32 coordinates are modelled by their integer values, and        *)
(* distance2 by the exact integer squared distance.  The z component of a  *)
(* Translation is 0 after every nudge (extend(0.0)) and is left out.       *)
(* Vec indices are 1-based here and 0-based in the code.                   *)
(***************************************************************************)
EXTENDS Integers, Sequences, FiniteSets, TLC

VARIABLES
    predators,      \* the predator entities in query iteration order:
                    \* [rf: Predator component, pos, vel, rot]
    preys,          \* the prey entities in query iteration order: [pos, vel, rot]
    out,            \* lines println! wrote during the most recent interact pass,
                    \* each with the loop variables in scope when it was written
    passes,         \* number of interact passes run so far
    nudges,         \* number of nudge runs so far
    delta_seconds,  \* Res<Time>.delta_seconds, in whole units
    pc,             \* index into the schedule of the next system to run
    ran,            \* systems run so far in the current tick, in order
    ticks           \* completed ticks

vars == <<predators, preys, out, passes, nudges, delta_seconds, pc, ran, ticks>>

---------------------------------------------------------------------------
(* conf: the constants the code reads.  The values are small ones that     *)
(* keep the ordering the code's comments state (strike <= prey view <=     *)
(* predator view) and make every distance class occur on the grid: 0 and 1 *)
(* strike; 2 mutually visible; 4 and 5 sighted only; 8 out of range.  The  *)
(* code compares the radii with squared distances.                         *)
MAP_SIZE == 2
predator_VIEW_RADIUS == 5
predator_STRIKE_RADIUS == 1
prey_VIEW_RADIUS == 4

(* Bounds of the model. *)
MaxPredators == 2
MaxPrey == 2
MaxPasses == 2
MaxSpeed == 1
MaxDelta == 2
MaxTicks == 2
MaxNudges == 2

Coord == 0..MAP_SIZE
Pos == Coord \X Coord
Speed == (0 - MaxSpeed)..MaxSpeed
Vel == Speed \X Speed
Delta == 0..MaxDelta

(* Places agents are spawned at: between them they give every squared      *)
(* distance the grid has (0, 1, 2, 4, 5, 8).                               *)
SpawnPoints == {<<0,0>>, <<0,1>>, <<1,1>>, <<0,2>>, <<2,2>>}

(* Option<Vec3>: None is the empty sequence, Some(p) is <<p>>. *)
None == <<>>
Some(p) == <<p>>

zero == <<0, 0>>

(* A rotation about z by acos(x of the normalised vector) * signum.  The   *)
(* arccosine is kept symbolically as the reduced direction <<x, |y|>> it   *)
(* is the angle of.                                                        *)
Rotation_identity == [acos |-> <<1, 0>>, signum |-> 1]

NewPredator(p) ==
    [rf |-> [score |-> 0, last_seen_prey |-> None],
     pos |-> p, vel |-> zero, rot |-> Rotation_identity]

NewPrey(p) == [pos |-> p, vel |-> zero, rot |-> Rotation_identity]

---------------------------------------------------------------------------
(* Predator's methods (predator.rs), as the design describes them. *)
score(rf) == [rf EXCEPT !.score = @ + 1]

spot_prey(rf, p) == [rf EXCEPT !.last_seen_prey = Some(p)]

reset_world_view_one(rf) == [rf EXCEPT !.last_seen_prey = None]

---------------------------------------------------------------------------
(* entities::interact *)

distance2(a, b) ==
    (a[1] - b[1]) * (a[1] - b[1]) + (a[2] - b[2]) * (a[2] - b[2])

NoRelations ==
    [predators_which_eat_me |-> <<>>,
     predators_which_see_me |-> <<>>,
     predators_which_i_see |-> <<>>]

(* Variant: once a predator has struck, the scan stops recording strikes   *)
(* (a break after the first hit).                                          *)
ClassifyPredator_FirstStrikeOnly(rel, predator_index, distance) ==
    IF distance > predator_VIEW_RADIUS THEN rel
    ELSE IF distance <= predator_STRIKE_RADIUS
    THEN IF rel.predators_which_eat_me = <<>>
         THEN [rel EXCEPT !.predators_which_eat_me = Append(@, predator_index)]
         ELSE rel
    ELSE IF distance < prey_VIEW_RADIUS
    THEN [rel EXCEPT !.predators_which_see_me = Append(@, predator_index),
                     !.predators_which_i_see = Append(@, predator_index)]
    ELSE [rel EXCEPT !.predators_which_see_me = Append(@, predator_index)]

(* Variant: the prey's view radius compared with <= instead of <. *)
ClassifyPredator_InclusivePreyView(rel, predator_index, distance) ==
    IF distance > predator_VIEW_RADIUS THEN rel
    ELSE IF distance <= predator_STRIKE_RADIUS
    THEN [rel EXCEPT !.predators_which_eat_me = Append(@, predator_index)]
    ELSE IF distance <= prey_VIEW_RADIUS
    THEN [rel EXCEPT !.predators_which_see_me = Append(@, predator_index),
                     !.predators_which_i_see = Append(@, predator_index)]
    ELSE [rel EXCEPT !.predators_which_see_me = Append(@, predator_index)]

(* The body of the inner loop: one predator against one prey. *)
ClassifyPredator(rel, predator_index, distance) ==
    IF distance > predator_VIEW_RADIUS THEN rel
    ELSE IF distance <= predator_STRIKE_RADIUS
    THEN [rel EXCEPT !.predators_which_eat_me = Append(@, predator_index)]
    ELSE IF distance < prey_VIEW_RADIUS
    THEN [rel EXCEPT !.predators_which_see_me = Append(@, predator_index),
                     !.predators_which_i_see = Append(@, predator_index)]
    ELSE [rel EXCEPT !.predators_which_see_me = Append(@, predator_index)]

RECURSIVE ScanFrom(_, _, _, _)
ScanFrom(ps, pos, predator_index, rel) ==
    IF predator_index > Len(ps) THEN rel
    ELSE ScanFrom(ps, pos, predator_index + 1,
                  ClassifyPredator(rel, predator_index,
                                   distance2(ps[predator_index].pos, pos)))

(* The inner loop: the relationships of the prey at pos to all predators. *)
Relations(ps, pos) == ScanFrom(ps, pos, 1, NoRelations)

(* Variant: only the first predator of the strike list scores. *)
ScoreEach_FirstOnly(ps, eat) ==
    IF eat = <<>> THEN ps
    ELSE [ps EXCEPT ![Head(eat)].rf = score(@)]

RECURSIVE ScoreEach(_, _)
ScoreEach(ps, eat) ==
    IF eat = <<>> THEN ps
    ELSE ScoreEach([ps EXCEPT ![Head(eat)].rf = score(@)], Tail(eat))

(* Variant: a predator that has already spotted a prey keeps that one. *)
RECURSIVE SpotEach_KeepFirst(_, _, _, _)
SpotEach_KeepFirst(w, see, prey_index, pos) ==
    IF see = <<>> THEN w
    ELSE SpotEach_KeepFirst(
            [w EXCEPT !.out = Append(@, [line |-> "I see a prey.",
                                         prey |-> prey_index,
                                         predator |-> Head(see)]),
                      !.predators[Head(see)].rf =
                          IF @.last_seen_prey = None THEN spot_prey(@, pos)
                          ELSE @],
            Tail(see), prey_index, pos)

RECURSIVE SpotEach(_, _, _, _)
SpotEach(w, see, prey_index, pos) ==
    IF see = <<>> THEN w
    ELSE SpotEach(
            [w EXCEPT !.out = Append(@, [line |-> "I see a prey.",
                                         prey |-> prey_index,
                                         predator |-> Head(see)]),
                      !.predators[Head(see)].rf = spot_prey(@, pos)],
            Tail(see), prey_index, pos)

RECURSIVE SeeEach(_, _, _)
SeeEach(w, isee, prey_index) ==
    IF isee = <<>> THEN w
    ELSE SeeEach([w EXCEPT !.out = Append(@, [line |-> "I see a predator.",
                                              prey |-> prey_index])],
                 Tail(isee), prey_index)

(* Variant: the sighting branch runs after the strike branch instead of    *)
(* in its else.                                                            *)
Resolve_NoPrecedence(w, rel, prey_index, pos) ==
    SpotEach(
        IF rel.predators_which_i_see /= <<>>
        THEN [w EXCEPT !.predators = ScoreEach(@, rel.predators_which_eat_me),
                       !.out = Append(@, [line |-> "I see a predator.",
                                          prey |-> prey_index])]
        ELSE [w EXCEPT !.predators = ScoreEach(@, rel.predators_which_eat_me)],
        rel.predators_which_see_me, prey_index, pos)

(* Variant: "I see a predator." is printed once per predator the prey sees. *)
Resolve_LinePerPredator(w, rel, prey_index, pos) ==
    IF rel.predators_which_eat_me /= <<>>
    THEN [w EXCEPT !.predators = ScoreEach(@, rel.predators_which_eat_me)]
    ELSE SpotEach(SeeEach(w, rel.predators_which_i_see, prey_index),
                  rel.predators_which_see_me, prey_index, pos)

(* Variant: the TODO carried out, a struck prey respawns at the origin. *)
Resolve_RespawnsStruck(w, rel, prey_index, pos) ==
    IF rel.predators_which_eat_me /= <<>>
    THEN [w EXCEPT !.predators = ScoreEach(@, rel.predators_which_eat_me),
                   !.preys[prey_index].pos = zero]
    ELSE SpotEach(
            IF rel.predators_which_i_see /= <<>>
            THEN [w EXCEPT !.out = Append(@, [line |-> "I see a predator.",
                                              prey |-> prey_index])]
            ELSE w,
            rel.predators_which_see_me, prey_index, pos)

(* What the pass does for one prey once its relationships are known. *)
Resolve(w, rel, prey_index, pos) ==
    IF rel.predators_which_eat_me /= <<>>
    THEN [w EXCEPT !.predators = ScoreEach(@, rel.predators_which_eat_me)]
    ELSE SpotEach(
            IF rel.predators_which_i_see /= <<>>
            THEN [w EXCEPT !.out = Append(@, [line |-> "I see a predator.",
                                              prey |-> prey_index])]
            ELSE w,
            rel.predators_which_see_me, prey_index, pos)

(* The body of the outer loop. *)
VisitPrey(w, prey_index) ==
    Resolve(w, Relations(w.predators, w.preys[prey_index].pos),
            prey_index, w.preys[prey_index].pos)

RECURSIVE PreyLoop(_, _)
PreyLoop(w, prey_index) ==
    IF prey_index > Len(w.preys) THEN w
    ELSE PreyLoop(VisitPrey(w, prey_index), prey_index + 1)

(* One whole pass over a world [predators, preys, out]. *)
InteractPass(w) == PreyLoop(w, 1)

interact ==
    /\ passes < MaxPasses
    /\ LET w == InteractPass([predators |-> predators, preys |-> preys,
                              out |-> <<>>])
       IN /\ predators' = w.predators
          /\ preys' = w.preys
          /\ out' = w.out
    /\ passes' = passes + 1
    /\ UNCHANGED <<nudges, delta_seconds, pc, ran, ticks>>

(* predator::reset_world_view over every predator. *)
ResetAll(ps) == [i \in 1..Len(ps) |-> [ps[i] EXCEPT !.rf = reset_world_view_one(@)]]

reset_world_view ==
    /\ predators' = ResetAll(predators)
    /\ UNCHANGED <<preys, out, passes, nudges, delta_seconds, pc, ran, ticks>>

---------------------------------------------------------------------------
(* The interaction engine on its own: any population up to the bounds,     *)
(* spawned in any order at the spawn points, then passes and resets.       *)
SeqsUpTo(S, n) == UNION {[1..k -> S] : k \in 0..n}

Init ==
    /\ predators \in SeqsUpTo({NewPredator(p) : p \in SpawnPoints}, MaxPredators)
    /\ preys \in SeqsUpTo({NewPrey(p) : p \in SpawnPoints}, MaxPrey)
    /\ out = <<>>
    /\ passes = 0
    /\ nudges = 0
    /\ delta_seconds = 0
    /\ pc = 0
    /\ ran = <<>>
    /\ ticks = 0

Next == interact \/ reset_world_view

Spec == Init /\ [][Next]_vars

---------------------------------------------------------------------------
(* entities::nudge *)

Min(a, b) == IF a <= b THEN a ELSE b
Max(a, b) == IF a >= b THEN a ELSE b
Abs(a) == IF a >= 0 THEN a ELSE 0 - a

RECURSIVE GCD(_, _)
GCD(a, b) == IF b = 0 THEN a ELSE GCD(b, a % b)

(* Variant: the .max(Vec2::zero()) left out. *)
ClampToMap_NoFloor(v) == <<Min(v[1], MAP_SIZE), Min(v[2], MAP_SIZE)>>

(* .min(Vec2::splat(MAP_SIZE)).max(Vec2::zero()), per component. *)
ClampToMap(v) ==
    <<Max(Min(v[1], MAP_SIZE), 0), Max(Min(v[2], MAP_SIZE), 0)>>

(* **pos + **vel * time.delta_seconds, truncated and clamped. *)
Advance(pos, vel, dt) ==
    ClampToMap(<<pos[1] + vel[1] * dt, pos[2] + vel[2] * dt>>)

(* vel_norm.x().acos() * vel_norm.y().signum() for a non-zero vel: the     *)
(* arccosine of x/|vel| is the angle of the direction <<x, |y|>>, kept in  *)
(* lowest terms; signum of a zero y (+0.0) is 1.                           *)
new_rot(vel) ==
    LET g == GCD(Abs(vel[1]), Abs(vel[2]))
    IN [acos |-> <<vel[1] \div g, Abs(vel[2]) \div g>>,
        signum |-> IF vel[2] >= 0 THEN 1 ELSE 0 - 1]

(* Variant: the is_zero test left out, a zero velocity resets the rotation. *)
Rotate_Always(rot, vel) ==
    IF vel /= zero THEN new_rot(vel) ELSE Rotation_identity

(* The rotation an entity is left with. *)
Rotate(rot, vel) == IF vel /= zero THEN new_rot(vel) ELSE rot

(* The loop body: one entity. *)
NudgeOne(e, dt) ==
    [e EXCEPT !.pos = Advance(e.pos, e.vel, dt),
              !.rot = Rotate(e.rot, e.vel)]

NudgeAll(es, dt) == [i \in 1..Len(es) |-> NudgeOne(es[i], dt)]

(* The query matches every entity with Velocity, Translation and Rotation: *)
(* the predators and the prey.                                             *)
nudge ==
    /\ nudges < MaxNudges
    /\ predators' = NudgeAll(predators, delta_seconds)
    /\ preys' = NudgeAll(preys, delta_seconds)
    /\ nudges' = nudges + 1
    /\ UNCHANGED <<out, passes, delta_seconds, pc, ran, ticks>>

(* entities::keyboard_movement for one Velocity.  x_vel and y_vel are what *)
(* the pressed keys give.  The renormalised sum                            *)
(* (vel + vel_change).normalize() * max_speed is some non-zero velocity;   *)
(* its f32 value is not computed here, any non-zero one may result.        *)
Steered(vel, x_vel, y_vel, dt, max_speed) ==
    LET vel_change == <<x_vel * dt * max_speed, y_vel * dt * max_speed>>
    IN IF vel_change /= zero THEN Vel \ {zero} ELSE {vel}

KeyAxis == {0 - 1, 0, 1}

(* predator::keyboard_movement: the helper on every predator's Velocity. *)
keyboard_movement ==
    /\ \E x_vel \in KeyAxis, y_vel \in KeyAxis :
         \E vs \in [1..Len(predators) -> Vel] :
            /\ \A i \in 1..Len(predators) :
                 vs[i] \in Steered(predators[i].vel, x_vel, y_vel,
                                   delta_seconds, MaxSpeed)
            /\ predators' = [i \in 1..Len(predators) |->
                                [predators[i] EXCEPT !.vel = vs[i]]]
    /\ UNCHANGED <<preys, out, passes, nudges, delta_seconds, pc, ran, ticks>>

(* prey::flocking_behavior: it gives each prey a velocity. *)
flocking_behavior ==
    /\ \E vs \in [1..Len(preys) -> Vel] :
         preys' = [i \in 1..Len(preys) |-> [preys[i] EXCEPT !.vel = vs[i]]]
    /\ UNCHANGED <<predators, out, passes, nudges, delta_seconds, pc, ran, ticks>>

(* The engine's time system: the seconds since the previous frame. *)
TimeUpdate ==
    /\ delta_seconds' \in Delta
    /\ UNCHANGED <<predators, preys, out, passes, nudges, pc, ran, ticks>>

(* The motion integrator on its own: one agent, a predator or a prey,      *)
(* anywhere on the map, steered and nudged in any order.                   *)
InitMotion ==
    /\ \E p \in Pos :
         \/ predators = <<NewPredator(p)>> /\ preys = <<>>
         \/ predators = <<>> /\ preys = <<NewPrey(p)>>
    /\ out = <<>>
    /\ passes = 0
    /\ nudges = 0
    /\ delta_seconds = 0
    /\ pc = 0
    /\ ran = <<>>
    /\ ticks = 0

NextMotion == TimeUpdate \/ keyboard_movement \/ flocking_behavior \/ nudge

SpecMotion == InitMotion /\ [][NextMotion]_vars

---------------------------------------------------------------------------
(* main: the systems added to the App, in the order add_system is called.  *)
(* Each tick the engine updates Time and then runs them in this order.     *)
Schedule ==
    <<"predator::reset_world_view", "prey::flocking_behavior",
      "predator::keyboard_movement", "prey::nudge", "predator::nudge">>

(* The engine's bookkeeping around one system: it runs when it is next in  *)
(* the schedule; after the last one the tick is complete.                  *)
Turn(name) == pc \in 1..Len(Schedule) /\ Schedule[pc] = name

Ran(name) ==
    /\ ran' = Append(ran, name)
    /\ pc' = IF pc = Len(Schedule) THEN 0 ELSE pc + 1
    /\ ticks' = IF pc = Len(Schedule) THEN ticks + 1 ELSE ticks

FrameStart ==
    /\ pc = 0
    /\ ticks < MaxTicks
    /\ delta_seconds' \in Delta
    /\ ran' = <<>>
    /\ pc' = 1
    /\ UNCHANGED <<predators, preys, out, passes, nudges, ticks>>

RunResetWorldView ==
    /\ Turn("predator::reset_world_view")
    /\ predators' = ResetAll(predators)
    /\ Ran("predator::reset_world_view")
    /\ UNCHANGED <<preys, out, passes, nudges, delta_seconds>>

RunFlockingBehavior ==
    /\ Turn("prey::flocking_behavior")
    /\ \E vs \in [1..Len(preys) -> Vel] :
         preys' = [i \in 1..Len(preys) |-> [preys[i] EXCEPT !.vel = vs[i]]]
    /\ Ran("prey::flocking_behavior")
    /\ UNCHANGED <<predators, out, passes, nudges, delta_seconds>>

RunKeyboardMovement ==
    /\ Turn("predator::keyboard_movement")
    /\ \E x_vel \in KeyAxis, y_vel \in KeyAxis :
         \E vs \in [1..Len(predators) -> Vel] :
            /\ \A i \in 1..Len(predators) :
                 vs[i] \in Steered(predators[i].vel, x_vel, y_vel,
                                   delta_seconds, MaxSpeed)
            /\ predators' = [i \in 1..Len(predators) |->
                                [predators[i] EXCEPT !.vel = vs[i]]]
    /\ Ran("predator::keyboard_movement")
    /\ UNCHANGED <<preys, out, passes, nudges, delta_seconds>>

(* prey::nudge and predator::nudge: entities::nudge over the prey and over  *)
(* the predators.                                                          *)
RunPreyNudge ==
    /\ Turn("prey::nudge")
    /\ preys' = NudgeAll(preys, delta_seconds)
    /\ nudges' = nudges + 1
    /\ Ran("prey::nudge")
    /\ UNCHANGED <<predators, out, passes, delta_seconds>>

RunPredatorNudge ==
    /\ Turn("predator::nudge")
    /\ predators' = NudgeAll(predators, delta_seconds)
    /\ nudges' = nudges + 1
    /\ Ran("predator::nudge")
    /\ UNCHANGED <<preys, out, passes, delta_seconds>>

(* The running App: one predator and one prey spawned by the startup       *)
(* systems, then ticks.                                                    *)
InitMain ==
    /\ \E p \in SpawnPoints, q \in SpawnPoints :
         predators = <<NewPredator(p)>> /\ preys = <<NewPrey(q)>>
    /\ out = <<>>
    /\ passes = 0
    /\ nudges = 0
    /\ delta_seconds = 0
    /\ pc = 0
    /\ ran = <<>>
    /\ ticks = 0

NextMain ==
    \/ FrameStart
    \/ RunResetWorldView
    \/ RunFlockingBehavior
    \/ RunKeyboardMovement
    \/ RunPreyNudge
    \/ RunPredatorNudge

SpecMain == InitMain /\ [][NextMain]_vars

---------------------------------------------------------------------------
(* The claims.                                                            *)

(* The distance classes of the design, as sets over the current positions. *)
(* They are stated from the radii alone, not from the pass.                *)
PredatorIds == 1..Len(predators)
PreyIds == 1..Len(preys)
Dist(p, y) == distance2(predators[p].pos, preys[y].pos)
StrikeSet(y) == {p \in PredatorIds : Dist(p, y) <= predator_STRIKE_RADIUS}
SightedSet(y) ==
    {p \in PredatorIds : /\ Dist(p, y) > predator_STRIKE_RADIUS
                         /\ Dist(p, y) <= predator_VIEW_RADIUS}
MutualSet(y) == {p \in SightedSet(y) : Dist(p, y) < prey_VIEW_RADIUS}
Struck(y) == StrikeSet(y) /= {}
StruckBy(p) == {y \in PreyIds : p \in StrikeSet(y)}
Evaded(p) == {y \in PreyIds : p \in SightedSet(y) /\ ~Struck(y)}
Latest(S) == CHOOSE y \in S : \A z \in S : z <= y
AllReset == \A p \in PredatorIds : predators[p].rf.last_seen_prey = None
Range(s) == {s[k] : k \in 1..Len(s)}
NoRepeats(s) == Cardinality(Range(s)) = Len(s)
Agents == Range(predators) \cup Range(preys)
Body(e) == <<e.pos, e.vel, e.rot>>

(* The lines of the last pass written for prey y. *)
Lines(text, y) == {k \in 1..Len(out) : out[k].line = text /\ out[k].prey = y}

(* "I see a prey." is written for prey y once for each predator that       *)
(* sights it and for no other.                                             *)
PredatorSideOk(y) ==
    /\ \A p \in SightedSet(y) :
         Cardinality({k \in Lines("I see a prey.", y) : out[k].predator = p}) = 1
    /\ \A k \in Lines("I see a prey.", y) : out[k].predator \in SightedSet(y)

(* The steps that are an interact pass, and those that are a nudge. *)
InteractStep == passes' = passes + 1
NudgeStep == nudges' = nudges + 1

(* The orders a query may yield n entities in. *)
Perms(n) == {f \in [1..n -> 1..n] : \A i, j \in 1..n : f[i] = f[j] => i = j}
Permute(s, f) == [i \in 1..Len(s) |-> s[f[i]]]

(* Saturation of a coordinate at the two ends of the map. *)
Sat(c) == IF c > MAP_SIZE THEN MAP_SIZE ELSE IF c < 0 THEN 0 ELSE c
Sat2(p) == <<Sat(p[1]), Sat(p[2])>>

(* Entity e nudged into f: inside the map, each axis the saturated sum. *)
Moved(e, f) ==
    /\ f.pos \in Pos
    /\ \A axis \in 1..2 :
         f.pos[axis] = Sat(e.pos[axis] + e.vel[axis] * delta_seconds)

(* Entity e nudged into f: a zero velocity keeps rotation and position. *)
Still(e, f) ==
    /\ e.vel = zero => f.rot = e.rot /\ f.pos = Sat2(e.pos)
    /\ f.rot /= e.rot => e.vel /= zero

(* The places of a system in the current tick's run. *)
Indexes(name) == {k \in 1..Len(ran) : ran[k] = name}
NudgeIndexes == Indexes("prey::nudge") \cup Indexes("predator::nudge")

\* C1: in a pass, a prey that some predator strikes causes no spot_prey call
\* and no "I see a prey." line for any predator, and no "I see a predator."
\* line, even when other predators merely sight it.
C1_CaptureOverSighting ==
    passes > 0 =>
        \A y \in PreyIds : Struck(y) => \A k \in 1..Len(out) : out[k].prey /= y

C1_Witness ==
    /\ passes > 0
    /\ \E y \in PreyIds : StrikeSet(y) /= {} /\ MutualSet(y) /= {}
    /\ \E y \in PreyIds : ~Struck(y) /\ Lines("I see a prey.", y) /= {}

\* C2: a predator's score never decreases, and one interact pass adds to it
\* exactly the number of prey within its strike radius.
C2_ScoreCountsStrikes ==
    [][/\ Len(predators') = Len(predators)
       /\ \A p \in PredatorIds :
            /\ predators'[p].rf.score >= predators[p].rf.score
            /\ InteractStep =>
                 predators'[p].rf.score =
                     predators[p].rf.score + Cardinality(StruckBy(p))]_vars

C2_Witness ==
    /\ passes >= 2
    /\ \E p \in PredatorIds :
         /\ Cardinality(StruckBy(p)) = 2
         /\ predators[p].rf.score = 2 * passes
    /\ \E y \in PreyIds : Cardinality(StrikeSet(y)) = 2

\* C3: whatever order the predator query and the prey query yield their
\* entities in, a predator within STRIKE_RADIUS of a prey is in that prey's
\* strike list, and every predator ends the pass with the same score.
C3_OrderIndependent ==
    [][InteractStep =>
        \A f \in Perms(Len(predators)), g \in Perms(Len(preys)) :
            LET ps == Permute(predators, f)
                ys == Permute(preys, g)
                w == InteractPass([predators |-> ps, preys |-> ys, out |-> <<>>])
            IN \A i \in 1..Len(ps) :
                /\ w.predators[i].rf.score = predators'[f[i]].rf.score
                /\ \A j \in 1..Len(ys) :
                     distance2(ps[i].pos, ys[j].pos) <= predator_STRIKE_RADIUS
                        => i \in Range(Relations(ps, ys[j].pos).predators_which_eat_me)]_vars

C3_Witness ==
    /\ passes > 0
    /\ \E y \in PreyIds : Cardinality(StrikeSet(y)) = 2
    /\ \E y \in PreyIds : Cardinality(StrikeSet(y)) = 1
    /\ \E p, q \in PredatorIds : predators[p].rf.score > predators[q].rf.score

\* C4: after nudge every position component lies in 0..MAP_SIZE, and each
\* component is the sum pos + vel * delta_seconds saturated at the two ends
\* independently of the other, for every velocity and delta, tick after tick.
C4_ClampedToMap ==
    [][NudgeStep =>
        /\ \A i \in PredatorIds : Moved(predators[i], predators'[i])
        /\ \A i \in PreyIds : Moved(preys[i], preys'[i])]_vars

C4_Witness ==
    /\ nudges >= 2
    /\ delta_seconds = 2
    /\ \E e \in Agents : e.vel = <<1, 0 - 1>> /\ e.pos = <<MAP_SIZE, 0>>

\* C5: nudge leaves the rotation and the (in-bounds) position of an agent
\* whose velocity is the zero vector as they were; the rotation changes only
\* when the velocity is non-zero.
C5_ZeroVelocityKeepsRotation ==
    [][NudgeStep =>
        /\ \A i \in PredatorIds : Still(predators[i], predators'[i])
        /\ \A i \in PreyIds : Still(preys[i], preys'[i])]_vars

C5_Witness ==
    /\ nudges >= 2
    /\ delta_seconds > 0
    /\ \E e \in Agents : e.vel = zero /\ e.rot /= Rotation_identity

\* C6: in every tick the systems run in the order reset of the predators'
\* view state, then interact exactly once, then motion integration: by the
\* time a nudge system has run, the reset and then one interact pass have
\* run in that tick.
C6_ResetInteractNudge ==
    NudgeIndexes /= {} =>
        /\ Cardinality(Indexes("interact")) = 1
        /\ \A j \in Indexes("interact") :
             /\ \E i \in Indexes("predator::reset_world_view") : i < j
             /\ \A k \in NudgeIndexes : j < k

\* C7: after a pass that starts with every last_seen_prey empty, a predator's
\* last_seen_prey is the position of the last prey in scan order that it
\* sights and that no predator strikes, and is empty when there is none.
C7_LastSeenIsLatestEvader ==
    [][(InteractStep /\ AllReset) =>
        \A p \in PredatorIds :
            predators'[p].rf.last_seen_prey =
                IF Evaded(p) = {} THEN None
                ELSE Some(preys[Latest(Evaded(p))].pos)]_vars

C7_Witness ==
    /\ passes > 0
    /\ \E p \in PredatorIds :
         /\ Cardinality(Evaded(p)) = 2
         /\ \E y, z \in Evaded(p) : y < z /\ preys[y].pos /= preys[z].pos
         /\ predators[p].rf.last_seen_prey = Some(preys[Latest(Evaded(p))].pos)

\* C8 as stated: for a prey no predator strikes, the pass writes one
\* "I see a predator." line per predator of the mutually-visible set, and one
\* "I see a prey." line per predator of the sighted set.
C8_OneSignalPerPair ==
    passes > 0 =>
        \A y \in PreyIds : ~Struck(y) =>
            /\ Cardinality(Lines("I see a predator.", y)) = Cardinality(MutualSet(y))
            /\ PredatorSideOk(y)

\* C8 amended: for a prey no predator strikes, the pass writes exactly one
\* "I see a predator." line when the mutually-visible set is non-empty and
\* none when it is empty, whatever the set's size, and one "I see a prey."
\* line per predator of the sighted set.
C8_OneSignalPerPrey ==
    passes > 0 =>
        \A y \in PreyIds : ~Struck(y) =>
            /\ Cardinality(Lines("I see a predator.", y)) =
                   (IF MutualSet(y) = {} THEN 0 ELSE 1)
            /\ PredatorSideOk(y)

C8_Witness ==
    /\ passes > 0
    /\ \E y \in PreyIds :
         /\ ~Struck(y)
         /\ Cardinality(MutualSet(y)) = 2
         /\ Cardinality(Lines("I see a predator.", y)) = 1
         /\ Cardinality(Lines("I see a prey.", y)) = 2

\* C9: the inner loop puts every predator in exactly one of out of range,
\* strike (distance <= STRIKE_RADIUS) and sighted (STRIKE_RADIUS < distance
\* <= VIEW_RADIUS); the mutually-visible list holds exactly the sighted
\* predators with distance < prey VIEW_RADIUS and shares nothing with the
\* strike list.
C9_Classification ==
    /\ predator_STRIKE_RADIUS <= prey_VIEW_RADIUS
    /\ prey_VIEW_RADIUS <= predator_VIEW_RADIUS
    /\ \A y \in PreyIds :
        LET rel == Relations(predators, preys[y].pos)
            eat == Range(rel.predators_which_eat_me)
            see == Range(rel.predators_which_see_me)
            isee == Range(rel.predators_which_i_see)
        IN /\ eat = StrikeSet(y)
           /\ see = SightedSet(y)
           /\ isee = MutualSet(y)
           /\ eat \cap see = {}
           /\ isee \subseteq see
           /\ isee \cap eat = {}
           /\ NoRepeats(rel.predators_which_eat_me)
           /\ NoRepeats(rel.predators_which_see_me)
           /\ NoRepeats(rel.predators_which_i_see)
           /\ \A p \in PredatorIds \ (eat \cup see) :
                Dist(p, y) > predator_VIEW_RADIUS

C9_Witness ==
    /\ passes > 0
    /\ \E p \in PredatorIds, y \in PreyIds : Dist(p, y) = predator_STRIKE_RADIUS
    /\ \E p \in PredatorIds, y \in PreyIds : Dist(p, y) = prey_VIEW_RADIUS
    /\ \E p \in PredatorIds, y \in PreyIds : Dist(p, y) = predator_VIEW_RADIUS
    /\ \E p \in PredatorIds, y \in PreyIds : Dist(p, y) > predator_VIEW_RADIUS

\* C10: a pass leaves every position (and velocity and rotation) of every
\* predator and prey and both population sizes as they were, struck prey
\* included; with no predators or no prey it changes nothing and prints
\* nothing.
C10_PassMovesNothing ==
    [][InteractStep =>
        /\ Len(predators') = Len(predators)
        /\ \A p \in PredatorIds : Body(predators'[p]) = Body(predators[p])
        /\ preys' = preys
        /\ (predators = <<>> \/ preys = <<>>) =>
              (predators' = predators /\ out' = <<>>)]_vars

C10_Witness ==
    /\ passes > 0
    /\ Len(preys) = 2
    /\ \A y \in PreyIds : Struck(y)
    /\ \E p \in PredatorIds : predators[p].rf.score > 0

====
